---- MODULE Spec2Model ----
(***************************************************************************)
(* The note preprocessing pipeline of src/src/preprocessing.py.            *)
(*                                                                         *)
(* A text is a sequence of one-character strings.  Every regular           *)
(* expression of the source is an operator  XxxEnd(s, i)  that gives the   *)
(* index just after the match that starts at index i of s, or 0 when the   *)
(* pattern does not match there; re.sub, re.split and finditer scan with   *)
(* it from left to right, as Python does (leftmost match, greedy           *)
(* quantifiers, matches that do not overlap).                              *)
(***************************************************************************)
EXTENDS Integers, Sequences, FiniteSets, TLC

VARIABLES
    notes,                      \* the argument of preprocess_patient_notes
    pc,                         \* the position in preprocess_patient_notes
    generalized_notes,          \* preprocessing.py:114
    deduplicated_content,       \* preprocessing.py:115
    combined_lab_results_str,   \* preprocessing.py:118
    combined_lab_results_dict,  \* preprocessing.py:118
    lab_result_pattern,         \* preprocessing.py:118
    shortened_document,         \* preprocessing.py:122-142, the returned value
    main_pc,                    \* the position in run_classification_workflow
    classifier_pipeline,        \* main.py:21, llm_classifier.py:21-33
    patient_ids,                \* main.py:28
    iterator,                   \* main.py:41, the position of the for loop
    classification_results,     \* main.py:39, 59, 63
    shortened_doc,              \* main.py:51
    log_errors,                 \* the logging.error calls made so far
    load_calls,                 \* the calls of load_patient_notes made so far
    shortened_notes_files,      \* results_saver.py:52-53, the files written
    save_results_calls,         \* main.py:66, the calls of save_results
    results_file                \* results_saver.py:27-32

\* the locals of preprocess_patient_notes
preprocessing_vars == <<notes, pc, generalized_notes, deduplicated_content,
                        combined_lab_results_str, combined_lab_results_dict,
                        lab_result_pattern, shortened_document>>

\* the state of run_classification_workflow and of the files it writes
main_vars == <<main_pc, classifier_pipeline, patient_ids, iterator,
               classification_results, shortened_doc, log_errors, load_calls,
               shortened_notes_files, save_results_calls, results_file>>

vars == <<preprocessing_vars, main_vars>>

-----------------------------------------------------------------------------
(* Character classes of Python's re and str, restricted to ASCII.          *)

UpperSeq == <<"A","B","C","D","E","F","G","H","I","J","K","L","M",
              "N","O","P","Q","R","S","T","U","V","W","X","Y","Z">>

LowerSeq == <<"a","b","c","d","e","f","g","h","i","j","k","l","m",
              "n","o","p","q","r","s","t","u","v","w","x","y","z">>

DigitSeq == <<"0","1","2","3","4","5","6","7","8","9">>

Range(f) == {f[i] : i \in DOMAIN f}

Upper == Range(UpperSeq)

Lower == Range(LowerSeq)

Letter == Upper \cup Lower

Digit == Range(DigitSeq)

\* \s
Space == {" ", "\n", "\t", "\r", "\f"}

\* \w, for \b
WordChar == Letter \cup Digit \cup {"_"}

LowerOf == [c \in Upper |-> LowerSeq[CHOOSE i \in DOMAIN UpperSeq : UpperSeq[i] = c]]

UpperOf == [c \in Lower |-> UpperSeq[CHOOSE i \in DOMAIN LowerSeq : LowerSeq[i] = c]]

ToLower(c) == IF c \in Upper THEN LowerOf[c] ELSE c

ToUpper(c) == IF c \in Lower THEN UpperOf[c] ELSE c

\* str.lower(), as (?i) compares
LowerText(s) == [i \in DOMAIN s |-> ToLower(s[i])]

\* str.title(): a letter is upper-cased when the character before it is not a
\* letter, and lower-cased otherwise
Title(s) ==
    [i \in DOMAIN s |->
        IF i > 1 /\ s[i-1] \in Letter THEN ToLower(s[i]) ELSE ToUpper(s[i])]

-----------------------------------------------------------------------------
(* Matching primitives.                                                    *)

\* the index after the longest run of characters of class S that starts at i
SpanEnd(s, i, S) ==
    IF i > Len(s) THEN i
    ELSE CHOOSE e \in i..(Len(s) + 1) :
            /\ e = Len(s) + 1 \/ s[e] \notin S
            /\ \A k \in i..(e - 1) : s[k] \in S

\* the literal lit stands at index i of s
HasAt(s, i, lit) ==
    /\ i >= 1
    /\ i + Len(lit) - 1 <= Len(s)
    /\ \A k \in 1..Len(lit) : s[i + k - 1] = lit[k]

\* the same, ignoring letter case (lit is given in lower case)
HasAtNoCase(s, i, lit) ==
    /\ i >= 1
    /\ i + Len(lit) - 1 <= Len(s)
    /\ \A k \in 1..Len(lit) : ToLower(s[i + k - 1]) = lit[k]

\* the index after at most n characters of class S from i
SpanAtMost(s, i, S, n) ==
    LET e == SpanEnd(s, i, S) IN IF e > i + n THEN i + n ELSE e

\* exactly n characters of class S from i
HasClass(s, i, S, n) ==
    /\ i + n - 1 <= Len(s)
    /\ \A k \in 0..(n - 1) : s[i + k] \in S

\* the least element of a non-empty set of integers
Least(S) == CHOOSE m \in S : \A k \in S : m <= k

\* re.sub(pattern, repl, s): End(s, i) is the pattern, Repl(s, i, e) the
\* replacement of the match s[i..e-1].  The scan goes from a match to the
\* leftmost match that starts at or after its end.
ReSub(s, End(_, _), Repl(_, _, _)) ==
    LET starts == {j \in 1..Len(s) : End(s, j) > j}
        from[i \in 1..(Len(s) + 1)] ==
            LET ahead == {j \in starts : j >= i}
            IN  IF ahead = {} THEN SubSeq(s, i, Len(s))
                ELSE LET m == Least(ahead)
                         e == End(s, m)
                     IN  SubSeq(s, i, m - 1) \o Repl(s, m, e) \o from[e]
    IN  from[1]

\* str.strip()
\* the index of the last character that is not whitespace, or 0
LastNonSpace(s) ==
    LET solid == {j \in 1..Len(s) : s[j] \notin Space}
    IN  IF solid = {} THEN 0 ELSE CHOOSE m \in solid : \A k \in solid : k <= m

Strip(s) == SubSeq(s, SpanEnd(s, 1, Space), LastNonSpace(s))

-----------------------------------------------------------------------------
(* The cleanup stage, preprocessing.py:128-132.                            *)

\* \s*-\s*
HyphenEnd(s, i) ==
    LET h == SpanEnd(s, i, Space)
    IN  IF h <= Len(s) /\ s[h] = "-" THEN SpanEnd(s, h + 1, Space) ELSE 0

HyphenRepl(s, i, e) == <<" ", "-", " ">>

\* ,, in place of ,,+ : commas are collapsed two at a time
CommaPairEnd(s, i) == IF HasAt(s, i, <<",", ",">>) THEN i + 2 ELSE 0

\* ,,+
CommasEnd(s, i) ==
    LET e == SpanEnd(s, i, {","}) IN IF e >= i + 2 THEN e ELSE 0

CommasRepl(s, i, e) == <<",">>

\* \s{2,}
SpacesEnd(s, i) ==
    LET e == SpanEnd(s, i, Space) IN IF e >= i + 2 THEN e ELSE 0

SpacesRepl(s, i, e) == <<" ">>

\* (\s*[,.;])
PunctEnd(s, i) ==
    LET p == SpanEnd(s, i, Space)
    IN  IF p <= Len(s) /\ s[p] \in {",", ".", ";"} THEN p + 1 ELSE 0

\* r'\1': the whole match, whitespace included
PunctRepl(s, i, e) == SubSeq(s, i, e - 1)

Cleanup(s) ==
    LET s1 == ReSub(s, HyphenEnd, HyphenRepl)
        s2 == ReSub(s1, CommasEnd, CommasRepl)
        s3 == ReSub(s2, SpacesEnd, SpacesRepl)
        s4 == ReSub(s3, PunctEnd, PunctRepl)
    IN  Strip(s4)

-----------------------------------------------------------------------------
(* _split_into_sentences and deduplicate_notes, preprocessing.py:11-40.      *)

\* (?<=[.!?])\s+
SentenceBreakEnd(s, i) ==
    IF i > 1 /\ s[i - 1] \in {".", "!", "?"} /\ s[i] \in Space
    THEN SpanEnd(s, i, Space)
    ELSE 0

\* re.split from index b: the pieces between the matches, empty ones included
RECURSIVE ReSplitFrom(_, _)
ReSplitFrom(s, b) ==
    LET ahead == {j \in b..Len(s) : SentenceBreakEnd(s, j) > j}
    IN  IF ahead = {} THEN <<SubSeq(s, b, Len(s))>>
        ELSE LET m == Least(ahead)
             IN  <<SubSeq(s, b, m - 1)>> \o ReSplitFrom(s, SentenceBreakEnd(s, m))

NonEmpty(s) == s # <<>>

_split_into_sentences(text) ==
    LET sentences == ReSplitFrom(text, 1)
        stripped == [k \in DOMAIN sentences |-> Strip(sentences[k])]
    IN  SelectSeq(stripped, NonEmpty)

\* sep.join(parts)
RECURSIVE Join(_, _)
Join(parts, sep) ==
    IF parts = <<>> THEN <<>>
    ELSE IF Len(parts) = 1 THEN parts[1]
    ELSE parts[1] \o sep \o Join(Tail(parts), sep)

\* the inner loop without the membership test: every sentence is appended
RECURSIVE AddSentencesKeepAll(_, _)
AddSentencesKeepAll(unique, sentences) ==
    IF sentences = <<>> THEN unique
    ELSE LET stripped_sentence == Strip(Head(sentences))
         IN  IF stripped_sentence # <<>>
             THEN AddSentencesKeepAll(Append(unique, stripped_sentence), Tail(sentences))
             ELSE AddSentencesKeepAll(unique, Tail(sentences))

\* the inner loop of deduplicate_notes: the keys of unique_sentences_ordered
\* after the sentences of one note
RECURSIVE AddSentences(_, _)
AddSentences(unique, sentences) ==
    IF sentences = <<>> THEN unique
    ELSE LET stripped_sentence == Strip(Head(sentences))
         IN  IF stripped_sentence # <<>> /\ stripped_sentence \notin Range(unique)
             THEN AddSentences(Append(unique, stripped_sentence), Tail(sentences))
             ELSE AddSentences(unique, Tail(sentences))

\* the outer loop: the keys of unique_sentences_ordered, in insertion order
\* the same with the loop of line 31 left after its first note
UniqueSentencesOfFirstNote(unique, ns) ==
    IF ns = <<>> THEN unique
    ELSE AddSentences(unique, _split_into_sentences(Head(ns)))

RECURSIVE UniqueSentences(_, _)
UniqueSentences(unique, ns) ==
    IF ns = <<>> THEN unique
    ELSE UniqueSentences(AddSentences(unique, _split_into_sentences(Head(ns))),
                         Tail(ns))

deduplicate_notes(ns) == Join(UniqueSentences(<<>>, ns), <<"\n">>)

-----------------------------------------------------------------------------
(* generalize_sensitive_info, preprocessing.py:43-63.                       *)

LitDr == <<"D","r",".">>

LitSeenByDr == <<"S","e","e","n"," ","b","y"," ","D","r",".">>

LitVisitedPhysician == <<"V","i","s","i","t","e","d"," ","P","h","y","s","i","c","i","a","n",":">>

LitPatient == <<"P","a","t","i","e","n","t">>

LitDOB == <<"D","O","B",":">>

LitDate == <<"D","a","t","e",":">>

LitOn == <<"o","n">>

LitOpenDOB == <<"(","D","O","B",":">>

LitWasSeenBy == <<"w","a","s"," ","s","e","e","n"," ","b","y">>

LitHasAHistory == <<"h","a","s"," ","a"," ","h","i","s","t","o","r","y">>

DoctorName == <<"[","D","O","C","T","O","R","_","N","A","M","E","]">>

PatientName == <<"[","P","A","T","I","E","N","T","_","N","A","M","E","]">>

DateOfBirth == <<"[","D","A","T","E","_","O","F","_","B","I","R","T","H","]">>

DatePlaceholder == <<"[","D","A","T","E","]">>

\* \s+[A-Z][a-zA-Z\s]+ from index p: the name part of the three doctor rules
DoctorTailEnd(s, p) ==
    LET w == SpanEnd(s, p, Space)
    IN  IF w > p /\ w <= Len(s) /\ s[w] \in Upper
        THEN LET e == SpanEnd(s, w + 1, Letter \cup Space)
             IN  IF e > w + 1 THEN e ELSE 0
        ELSE 0

\* (Dr\.\s+[A-Z][a-zA-Z\s]+)
DrEnd(s, i) == IF HasAt(s, i, LitDr) THEN DoctorTailEnd(s, i + Len(LitDr)) ELSE 0

DrRepl(s, i, e) == LitDr \o <<" ">> \o DoctorName

\* (Seen by Dr\.\s+[A-Z][a-zA-Z\s]+)
SeenByEnd(s, i) ==
    IF HasAt(s, i, LitSeenByDr) THEN DoctorTailEnd(s, i + Len(LitSeenByDr)) ELSE 0

SeenByRepl(s, i, e) == LitSeenByDr \o <<" ">> \o DoctorName

\* (Visited Physician:\s+[A-Z][a-zA-Z\s]+)
PhysicianEnd(s, i) ==
    IF HasAt(s, i, LitVisitedPhysician)
    THEN DoctorTailEnd(s, i + Len(LitVisitedPhysician))
    ELSE 0

PhysicianRepl(s, i, e) == LitVisitedPhysician \o <<" ">> \o DoctorName

\* [A-Z][a-z]+ from index p
CapWordEnd(s, p) ==
    IF p <= Len(s) /\ s[p] \in Upper
    THEN LET e == SpanEnd(s, p + 1, Lower) IN IF e > p + 1 THEN e ELSE 0
    ELSE 0

\* \s+[A-Z][a-z]+ from index p
SpacedCapWordEnd(s, p) ==
    LET w == SpanEnd(s, p, Space) IN IF w > p THEN CapWordEnd(s, w) ELSE 0

\* (Patient\s+[A-Z][a-z]+(?:\s+[A-Z][a-z]+)?)
PatientEnd(s, i) ==
    IF HasAt(s, i, LitPatient)
    THEN LET a == SpacedCapWordEnd(s, i + Len(LitPatient))
         IN  IF a = 0 THEN 0
             ELSE LET b == SpacedCapWordEnd(s, a) IN IF b > 0 THEN b ELSE a
    ELSE 0

PatientRepl(s, i, e) == LitPatient \o <<" ">> \o PatientName

\* \b at index p (between s[p-1] and s[p])
WordBoundary(s, p) ==
    (p > 1 /\ s[p - 1] \in WordChar) # (p <= Len(s) /\ s[p] \in WordChar)

\* (?=\s+\(DOB:|\s+was seen by|\s+has a history) at index p
NameMarkerAt(s, p) ==
    LET w == SpanEnd(s, p, Space)
    IN  /\ w > p
        /\ \/ HasAt(s, w, LitOpenDOB)
           \/ HasAt(s, w, LitWasSeenBy)
           \/ HasAt(s, w, LitHasAHistory)

\* (\b[A-Z][a-z]+\s+[A-Z][a-z]+\b)(?=...)
BareNameEnd(s, i) ==
    IF WordBoundary(s, i)
    THEN LET a == CapWordEnd(s, i)
         IN  IF a = 0 THEN 0
             ELSE LET e == SpacedCapWordEnd(s, a)
                  IN  IF e > 0 /\ WordBoundary(s, e) /\ NameMarkerAt(s, e)
                      THEN e ELSE 0
    ELSE 0

BareNameRepl(s, i, e) == PatientName

\* (DOB:\s+\d{4}-\d{2}-\d{2})
DobEnd(s, i) ==
    IF HasAt(s, i, LitDOB)
    THEN LET w == SpanEnd(s, i + Len(LitDOB), Space)
         IN  IF /\ w > i + Len(LitDOB)
                /\ HasClass(s, w, Digit, 4) /\ HasAt(s, w + 4, <<"-">>)
                /\ HasClass(s, w + 5, Digit, 2) /\ HasAt(s, w + 7, <<"-">>)
                /\ HasClass(s, w + 8, Digit, 2)
             THEN w + 10 ELSE 0
    ELSE 0

DobRepl(s, i, e) == LitDOB \o <<" ">> \o DateOfBirth

\* \s+\d{1,2}/\d{1,2}/\d{4} from index p
SlashDateEnd(s, p) ==
    LET w == SpanEnd(s, p, Space)
        m == SpanAtMost(s, w, Digit, 2)
        d == SpanAtMost(s, m + 1, Digit, 2)
    IN  IF /\ w > p
           /\ m > w /\ HasAt(s, m, <<"/">>)
           /\ d > m + 1 /\ HasAt(s, d, <<"/">>)
           /\ HasClass(s, d + 1, Digit, 4)
        THEN d + 5 ELSE 0

\* (Date:\s+\d{1,2}/\d{1,2}/\d{4})
DateEnd(s, i) == IF HasAt(s, i, LitDate) THEN SlashDateEnd(s, i + Len(LitDate)) ELSE 0

DateRepl(s, i, e) == LitDate \o <<" ">> \o DatePlaceholder

\* (on\s+\d{1,2}/\d{1,2}/\d{4})
OnEnd(s, i) == IF HasAt(s, i, LitOn) THEN SlashDateEnd(s, i + Len(LitOn)) ELSE 0

OnRepl(s, i, e) == LitOn \o <<" ">> \o DatePlaceholder

\* the three doctor rules, preprocessing.py:48-50
GeneralizeDoctor(text) ==
    LET t1 == ReSub(text, DrEnd, DrRepl)
        t2 == ReSub(t1, SeenByEnd, SeenByRepl)
    IN  ReSub(t2, PhysicianEnd, PhysicianRepl)

generalize_sensitive_info(text) ==
    LET t3 == GeneralizeDoctor(text)
        t4 == ReSub(t3, PatientEnd, PatientRepl)
        t5 == ReSub(t4, BareNameEnd, BareNameRepl)
        t6 == ReSub(t5, DobEnd, DobRepl)
        t7 == ReSub(t6, DateEnd, DateRepl)
    IN  ReSub(t7, OnEnd, OnRepl)

-----------------------------------------------------------------------------
(* extract_and_combine_lab_results, preprocessing.py:66-100.                *)

\* the alternatives of group 1 of lab_result_pattern, in the pattern's order
LabNames == <<
    <<"b","l","o","o","d"," ","c","o","u","n","t">>,
    <<"h","e","m","o","g","l","o","b","i","n">>,
    <<"g","l","u","c","o","s","e">>,
    <<"c","r","e","a","t","i","n","i","n","e">>,
    <<"c","h","o","l","e","s","t","e","r","o","l">>,
    <<"s","o","d","i","u","m">>,
    <<"p","o","t","a","s","s","i","u","m">>,
    <<"w","b","c">>,
    <<"r","b","c">>,
    <<"p","l","a","t","e","l","e","t","s">>,
    <<"h","b","a","1","c">>,
    <<"t","s","h">>,
    <<"h","e","m","a","t","o","c","r","i","t">>,
    <<"w","h","i","t","e"," ","b","l","o","o","d"," ","c","e","l","l"," ","c","o","u","n","t">> >>

\* the alternative of group 1 that stands at index i of s under (?i), or 0
LabNameAt(s, i) ==
    IF \E k \in DOMAIN LabNames : HasAtNoCase(s, i, LabNames[k])
    THEN CHOOSE k \in DOMAIN LabNames :
            /\ HasAtNoCase(s, i, LabNames[k])
            /\ \A j \in 1..(k - 1) : ~HasAtNoCase(s, i, LabNames[j])
    ELSE 0

\* the index where group 2 starts: after <name>\s*:\s*, or 0
LabValueStart(s, i) ==
    LET k == LabNameAt(s, i)
    IN  IF k = 0 THEN 0
        ELSE LET c == SpanEnd(s, i + Len(LabNames[k]), Space)
             IN  IF c <= Len(s) /\ s[c] = ":" THEN SpanEnd(s, c + 1, Space) ELSE 0

\* (\d+\.?\d*) from index v: the index after group 2, or 0
LabValueEnd(s, v) ==
    LET d == SpanEnd(s, v, Digit)
    IN  IF d = v THEN 0
        ELSE IF d <= Len(s) /\ s[d] = "." THEN SpanEnd(s, d + 1, Digit) ELSE d

\* lab_result_pattern as a whole
LabEnd(s, i) ==
    LET v == LabValueStart(s, i) IN IF v = 0 THEN 0 ELSE LabValueEnd(s, v)

\* match.group(1).strip(), without .title(): the name as written
LabNameAsWritten(s, i) == Strip(SubSeq(s, i, i + Len(LabNames[LabNameAt(s, i)]) - 1))

\* match.group(1).strip().title()
LabNameOf(s, i) == Title(Strip(SubSeq(s, i, i + Len(LabNames[LabNameAt(s, i)]) - 1)))

\* match.group(2).strip()
LabValueOf(s, i) == Strip(SubSeq(s, LabValueStart(s, i), LabEnd(s, i) - 1))

\* lab_result_pattern.finditer(note): the start of every match, left to right
RECURSIVE LabMatchesFrom(_, _)
LabMatchesFrom(s, i) ==
    LET ahead == {j \in i..Len(s) : LabEnd(s, j) > j}
    IN  IF ahead = {} THEN <<>>
        ELSE LET m == Least(ahead) IN <<m>> \o LabMatchesFrom(s, LabEnd(s, m))

\* the same with a value kept once per test: repeated observations are merged
AddLabValueOnce(dict, lab_name, lab_value) ==
    IF \E k \in DOMAIN dict : dict[k].name = lab_name
    THEN [k \in DOMAIN dict |->
            IF dict[k].name = lab_name /\ lab_value \notin Range(dict[k].values)
            THEN [name |-> lab_name, values |-> Append(dict[k].values, lab_value)]
            ELSE dict[k]]
    ELSE Append(dict, [name |-> lab_name, values |-> <<lab_value>>])

\* combined_lab_results[lab_name].append(lab_value); the dict is the sequence
\* of its items in insertion order
AddLabValue(dict, lab_name, lab_value) ==
    IF \E k \in DOMAIN dict : dict[k].name = lab_name
    THEN [k \in DOMAIN dict |->
            IF dict[k].name = lab_name
            THEN [dict[k] EXCEPT !.values = Append(@, lab_value)]
            ELSE dict[k]]
    ELSE Append(dict, [name |-> lab_name, values |-> <<lab_value>>])

\* the loop over the matches of one note
RECURSIVE AddNoteLabs(_, _, _)
AddNoteLabs(dict, note, starts) ==
    IF starts = <<>> THEN dict
    ELSE AddNoteLabs(AddLabValue(dict, LabNameOf(note, Head(starts)),
                                 LabValueOf(note, Head(starts))),
                     note, Tail(starts))

\* the loop over the notes, preprocessing.py:81-88
RECURSIVE CombineLabs(_, _)
CombineLabs(dict, ns) ==
    IF ns = <<>> THEN dict
    ELSE CombineLabs(AddNoteLabs(dict, Head(ns), LabMatchesFrom(Head(ns), 1)),
                     Tail(ns))

LitLabResults == <<"L","a","b"," ","R","e","s","u","l","t","s",":"," ">>

\* f"{lab_name}: {', '.join(values)}"
FormatLab(item) == item.name \o <<":", " ">> \o Join(item.values, <<",", " ">>)

\* the returned triple: the summary, the dict, the pattern ("None" for None)
extract_and_combine_lab_results(ns) ==
    LET combined_lab_results == CombineLabs(<<>>, ns)
        formatted_results ==
            [k \in DOMAIN combined_lab_results |-> FormatLab(combined_lab_results[k])]
    IN  IF formatted_results # <<>>
        THEN <<LitLabResults \o Join(formatted_results, <<";", " ">>),
               combined_lab_results, "lab_result_pattern">>
        ELSE <<<<>>, <<>>, "None">>

-----------------------------------------------------------------------------
(* preprocess_patient_notes, preprocessing.py:103-142.                      *)

LabRepl(s, i, e) == <<>>

\* \n\s*\n : from a newline to the last newline of the whitespace run after it
BlankLinesEnd(s, i) ==
    IF s[i] = "\n"
    THEN LET newlines == {j \in (i + 1)..(SpanEnd(s, i + 1, Space) - 1) : s[j] = "\n"}
         IN  IF newlines = {} THEN 0
             ELSE 1 + CHOOSE q \in newlines : \A k \in newlines : k <= q
    ELSE 0

BlankLinesRepl(s, i, e) == <<"\n", "\n">>

\* pattern.sub("", s): an attribute of None cannot be read (AttributeError)
PatternSub(pattern, s) ==
    IF pattern = "None"
    THEN [raised |-> TRUE, value |-> <<>>]
    ELSE [raised |-> FALSE, value |-> ReSub(s, LabEnd, LabRepl)]

\* the same without the test of line 121: the pattern is used even when None
StripLabMentionsUnguarded(pattern, content) ==
    LET removed == PatternSub(pattern, content)
    IN  IF removed.raised THEN removed
        ELSE [raised |-> FALSE,
              value |-> Strip(ReSub(removed.value, BlankLinesEnd, BlankLinesRepl))]

\* preprocessing.py:121-125
StripLabMentions(pattern, content) ==
    IF pattern # "None"
    THEN LET removed == PatternSub(pattern, content)
         IN  IF removed.raised THEN removed
             ELSE [raised |-> FALSE,
                   value |-> Strip(ReSub(removed.value, BlankLinesEnd, BlankLinesRepl))]
    ELSE [raised |-> FALSE, value |-> content]

\* preprocessing.py:135-139
AppendLabSummary(document, summary) ==
    IF summary # <<>>
    THEN IF document # <<>> THEN document \o <<"\n", "\n">> \o summary
         ELSE summary
    ELSE document

\* the function as a whole: the value returned, or raised = TRUE
preprocess_patient_notes(note_list) ==
    LET generalized == [k \in DOMAIN note_list |-> generalize_sensitive_info(note_list[k])]
        content == deduplicate_notes(generalized)
        labs == extract_and_combine_lab_results(generalized)
        stripped == StripLabMentions(labs[3], content)
    IN  IF stripped.raised THEN stripped
        ELSE [raised |-> FALSE,
              value |-> AppendLabSummary(Cleanup(stripped.value), labs[1])]

-----------------------------------------------------------------------------
(* The inputs: note lists built from a vocabulary of fragments.            *)

MaxNotes == 2

MaxFragments == 3

MaxClinical == 4

MaxSentences == 4

MaxChars == 5

RECURSIVE Flatten(_)
Flatten(parts) == IF parts = <<>> THEN <<>> ELSE Head(parts) \o Flatten(Tail(parts))

\* the ways to cut a sequence of fragments into n consecutive (possibly
\* empty) notes
RECURSIVE Cuts(_, _)
Cuts(parts, n) ==
    IF n = 0 THEN IF parts = <<>> THEN {<<>>} ELSE {}
    ELSE UNION {{<<Flatten(SubSeq(parts, 1, k))>> \o rest :
                    rest \in Cuts(SubSeq(parts, k + 1, Len(parts)), n - 1)} :
                k \in 0..Len(parts)}

\* every list of at most MaxNotes notes made of at most f fragments of V in all
NoteLists(V, f) ==
    UNION {UNION {Cuts(parts, n) : n \in 0..MaxNotes} :
           parts \in UNION {[1..k -> V] : k \in 0..f}}

\* a lab mention, a bare test name, a colon and number, the summary label, a sentence
ClinicalFragments == {
    <<"G","l","u","c","o","s","e",":"," ","7">>,
    <<"G","l","u","c","o","s","e">>,
    <<":"," ","7">>,
    <<"L","a","b"," ","R","e","s","u","l","t","s",":"," ">>,
    <<"O","k",".">> }

\* lab mentions that end a sentence, and mentions that differ in letter case
LabFragments == {
    <<"B","l","o","o","d"," ","C","o","u","n","t",":"," ","3","0","0",".">>,
    <<"B","l","o","o","d"," ","C","o","u","n","t",":"," ","4","0","0",".">>,
    <<"H","E","M","O","G","L","O","B","I","N",":"," ","9",".","0">>,
    <<"h","e","m","o","g","l","o","b","i","n",":"," ","9",".","5">> }

\* a doctor label, a name, the words after it, a malformed date, a lab mention
SensitiveFragments == {
    <<"D","r","."," ">>,
    <<"S","m","i","t","h">>,
    <<" ","s","a","w"," ","h","i","m">>,
    <<"o","n"," ","1","/","2","/","2","0">>,
    <<"G","l","u","c","o","s","e",":"," ","7">> }

\* sentences, with and without the whitespace that ends them
SentenceFragments == {
    <<"A","."," ">>,
    <<"B",".">>,
    <<"B","."," ">>,
    <<"C",".">> }

\* sentences, and the whitespace that joins them or breaks a line inside one
LineFragments == {<<"A", ".">>, <<"B">>, <<"\n">>, <<" ">>}

\* the characters the cleanup rules act on, and a letter
TextChars == {"a", "-", ",", " ", "."}

\* one note of at most MaxChars characters
TextNotes == UNION {{<<t>> : t \in [1..k -> TextChars]} : k \in 0..MaxChars}

-----
(* The state machine: one call of preprocess_patient_notes, statement by    *)
(* statement.                                                               *)

\* preprocess_patient_notes called on its own, outside the workflow
NoWorkflow ==
    /\ main_pc = "none"
    /\ classifier_pipeline = "unset"
    /\ patient_ids = <<>>
    /\ iterator = 1
    /\ classification_results = <<>>
    /\ shortened_doc = <<>>
    /\ log_errors = <<>>
    /\ load_calls = <<>>
    /\ shortened_notes_files = <<>>
    /\ save_results_calls = <<>>
    /\ results_file = [written |-> FALSE, content |-> <<>>]

InitWith(inputs) ==
    /\ notes \in inputs
    /\ pc = "start"
    /\ generalized_notes = <<>>
    /\ deduplicated_content = <<>>
    /\ combined_lab_results_str = <<>>
    /\ combined_lab_results_dict = <<>>
    /\ lab_result_pattern = "None"
    /\ shortened_document = <<>>
    /\ NoWorkflow

Init == InitWith(NoteLists(ClinicalFragments, MaxClinical))

InitLabs == InitWith(NoteLists(LabFragments, MaxFragments))

InitSensitive == InitWith(NoteLists(SensitiveFragments, MaxFragments))

InitSentences == InitWith(NoteLists(SentenceFragments, MaxSentences))

InitLines == InitWith(NoteLists(LineFragments, MaxFragments))

InitText == InitWith(TextNotes)

\* preprocessing.py:114
Generalize ==
    /\ pc = "start"
    /\ generalized_notes' = [k \in DOMAIN notes |-> generalize_sensitive_info(notes[k])]
    /\ pc' = "generalized"
    /\ UNCHANGED <<notes, deduplicated_content, combined_lab_results_str,
                   combined_lab_results_dict, lab_result_pattern, shortened_document>>
    /\ UNCHANGED main_vars

\* preprocessing.py:115
Deduplicate ==
    /\ pc = "generalized"
    /\ deduplicated_content' = deduplicate_notes(generalized_notes)
    /\ pc' = "deduplicated"
    /\ UNCHANGED <<notes, generalized_notes, combined_lab_results_str,
                   combined_lab_results_dict, lab_result_pattern, shortened_document>>
    /\ UNCHANGED main_vars

\* preprocessing.py:118
ExtractLabs ==
    /\ pc = "deduplicated"
    /\ LET labs == extract_and_combine_lab_results(generalized_notes)
       IN  /\ combined_lab_results_str' = labs[1]
           /\ combined_lab_results_dict' = labs[2]
           /\ lab_result_pattern' = labs[3]
    /\ pc' = "extracted"
    /\ UNCHANGED <<notes, generalized_notes, deduplicated_content, shortened_document>>
    /\ UNCHANGED main_vars

\* preprocessing.py:121-125
StripLabs ==
    /\ pc = "extracted"
    /\ LET stripped == StripLabMentions(lab_result_pattern, deduplicated_content)
       IN  IF stripped.raised
           THEN pc' = "raised" /\ UNCHANGED shortened_document
           ELSE pc' = "stripped" /\ shortened_document' = stripped.value
    /\ UNCHANGED <<notes, generalized_notes, deduplicated_content,
                   combined_lab_results_str, combined_lab_results_dict,
                   lab_result_pattern>>
    /\ UNCHANGED main_vars

\* preprocessing.py:128-132
CleanupDocument ==
    /\ pc = "stripped"
    /\ shortened_document' = Cleanup(shortened_document)
    /\ pc' = "cleaned"
    /\ UNCHANGED <<notes, generalized_notes, deduplicated_content,
                   combined_lab_results_str, combined_lab_results_dict,
                   lab_result_pattern>>
    /\ UNCHANGED main_vars

\* preprocessing.py:135-142
Return ==
    /\ pc = "cleaned"
    /\ shortened_document' = AppendLabSummary(shortened_document, combined_lab_results_str)
    /\ pc' = "returned"
    /\ UNCHANGED <<notes, generalized_notes, deduplicated_content,
                   combined_lab_results_str, combined_lab_results_dict,
                   lab_result_pattern>>
    /\ UNCHANGED main_vars

Next ==
    \/ Generalize
    \/ Deduplicate
    \/ ExtractLabs
    \/ StripLabs
    \/ CleanupDocument
    \/ Return

Spec == Init /\ [][Next]_vars

SpecLabs == InitLabs /\ [][Next]_vars

SpecSensitive == InitSensitive /\ [][Next]_vars

SpecSentences == InitSentences /\ [][Next]_vars

SpecLines == InitLines /\ [][Next]_vars

SpecText == InitText /\ [][Next]_vars

-----------------------------------------------------------------------------
(* run_classification_workflow, main.py:14-69, with the collaborators it    *)
(* calls: ClinicalNoteClassifier (llm_classifier.py), load_patient_notes    *)
(* (data_loader.py), save_shortened_note and save_results                   *)
(* (results_saver.py).  The file system and the model are the environment:  *)
(* what they answer is chosen at the step that asks.                        *)

MaxPatients == 2

MaxFiles == 1

\* the entries of data_dir: patient directory k, and 0 for a plain file
DirEntries == 0..MaxPatients

\* os.path.isdir(os.path.join(data_dir, d))
IsPatientDir(d) == d > 0

\* the sequences over S without repetition, at most n long
Listings(S, n) ==
    {q \in UNION {[1..k -> S] : k \in 0..n} : \A i, j \in DOMAIN q : q[i] = q[j] => i = j}

\* what os.listdir(data_dir) answers: a listing, or an exception
DataDirs ==
    {[error |-> "none", entries |-> q] : q \in Listings(DirEntries, MaxPatients + 1)}
        \cup {[error |-> "FileNotFoundError", entries |-> <<>>],
              [error |-> "Exception", entries |-> <<>>]}

\* the content of a note file
NoteTexts == {<<"O","k","."," ","G","l","u","c","o","s","e",":"," ","7">>}

\* a file of a patient directory: a note, a note that cannot be read, a file
\* that is not a .txt
NoteFiles ==
    {[txt |-> TRUE, readable |-> TRUE, content |-> c] : c \in NoteTexts}
        \cup {[txt |-> TRUE, readable |-> FALSE, content |-> <<>>],
              [txt |-> FALSE, readable |-> TRUE, content |-> <<>>]}

\* a patient directory as load_patient_notes finds it: missing, not listable,
\* or holding files
PatientDirs ==
    {[isdir |-> FALSE, listable |-> FALSE, files |-> <<>>],
     [isdir |-> TRUE, listable |-> FALSE, files |-> <<>>]}
        \cup {[isdir |-> TRUE, listable |-> TRUE, files |-> f] :
                f \in UNION {[1..k -> NoteFiles] : k \in 0..MaxFiles}}

\* data_loader.py:28-35: the notes read, and the files whose read failed
RECURSIVE ReadNotes(_)
ReadNotes(files) ==
    IF files = <<>> THEN [patient_notes |-> <<>>, failed |-> 0]
    ELSE LET file == Head(files)
             rest == ReadNotes(Tail(files))
         IN  IF ~file.txt THEN rest
             ELSE IF file.readable
             THEN [patient_notes |-> <<file.content>> \o rest.patient_notes,
                   failed |-> rest.failed]
             ELSE [patient_notes |-> rest.patient_notes, failed |-> rest.failed + 1]

\* data_loader.py:10-36: the value returned or the exception raised, and the
\* errors logged
load_patient_notes(dir) ==
    IF ~dir.isdir
    THEN [raised |-> "none", value |-> <<>>, logged |-> <<"Patient directory not found">>]
    ELSE IF ~dir.listable
    THEN [raised |-> "PermissionError", value |-> <<>>, logged |-> <<>>]
    ELSE LET read == ReadNotes(dir.files)
         IN  [raised |-> "none", value |-> read.patient_notes,
              logged |-> [k \in 1..read.failed |-> "Error reading file"]]

\* what the text-generation pipeline answers: the exception it raises, or
\* which of the two patterns of llm_classifier.py:89-91 its response matches
Generations ==
    {[raised |-> TRUE, needs |-> FALSE, no |-> FALSE]}
        \cup {[raised |-> FALSE, needs |-> n, no |-> o] : n, o \in BOOLEAN}

\* llm_classifier.py:45-98
classify_note(pipeline, generated) ==
    IF pipeline = "None" THEN "Error: Classifier not loaded"
    ELSE IF generated.raised THEN "Error during classification"
    ELSE IF generated.needs THEN "Needs Follow-up"
    ELSE IF generated.no THEN "No Follow-up"
    ELSE "Uncertain"

\* what writing a file does: results_saver.py makes the directory outside its
\* try block and opens and writes the file inside it
WriteOutcomes == {"written", "write failed", "makedirs failed"}

\* the same without the test of line 22: the workflow goes on without a classifier
ClassifierNeverMissing(pipeline) == FALSE

\* main.py:22
ClassifierMissing(pipeline) == pipeline = "None"

\* classification_results[patient] = classification; the dict is the sequence
\* of its items in insertion order
SetResult(results, patient, classification) ==
    IF \E k \in DOMAIN results : results[k].patient_id = patient
    THEN [k \in DOMAIN results |->
            IF results[k].patient_id = patient
            THEN [patient_id |-> patient, classification |-> classification]
            ELSE results[k]]
    ELSE Append(results, [patient_id |-> patient, classification |-> classification])

\* the logging.error calls about one patient
Logged(patient, messages) ==
    [k \in DOMAIN messages |-> [patient_id |-> patient, message |-> messages[k]]]

\* the patient of the current iteration
patient_id == patient_ids[iterator]

\* f"Error: {e}" of main.py:63, for the exceptions that reach the handler
ErrorLabel ==
    [PermissionError |-> "Error: PermissionError",
     OSError |-> "Error: OSError",
     AttributeError |-> "Error: AttributeError"]

\* main.py:61-63: the handler of the loop body, which ends the iteration
ExceptHandler(e, logged) ==
    /\ log_errors' = log_errors
            \o Logged(patient_id, logged \o <<"Error processing patient">>)
    /\ classification_results' = SetResult(classification_results, patient_id, ErrorLabel[e])
    /\ iterator' = iterator + 1
    /\ main_pc' = "loop"

InitWorkflow ==
    /\ notes = <<>>
    /\ pc = "idle"
    /\ generalized_notes = <<>>
    /\ deduplicated_content = <<>>
    /\ combined_lab_results_str = <<>>
    /\ combined_lab_results_dict = <<>>
    /\ lab_result_pattern = "None"
    /\ shortened_document = <<>>
    /\ main_pc = "start"
    /\ classifier_pipeline = "unset"
    /\ patient_ids = <<>>
    /\ iterator = 1
    /\ classification_results = <<>>
    /\ shortened_doc = <<>>
    /\ log_errors = <<>>
    /\ load_calls = <<>>
    /\ shortened_notes_files = <<>>
    /\ save_results_calls = <<>>
    /\ results_file = [written |-> FALSE, content |-> <<>>]

\* main.py:21, llm_classifier.py:13-33: the model loads, or the exception of
\* the load is caught and the pipeline is None
InitializeClassifier ==
    /\ main_pc = "start"
    /\ \E loads \in BOOLEAN :
          /\ classifier_pipeline' = IF loads THEN "pipeline" ELSE "None"
          /\ log_errors' = IF loads THEN log_errors
                           ELSE log_errors \o Logged(0, <<"Error loading TinyLlama model">>)
    /\ main_pc' = "constructed"
    /\ UNCHANGED <<patient_ids, iterator, classification_results, shortened_doc,
                   load_calls, shortened_notes_files, save_results_calls, results_file>>
    /\ UNCHANGED preprocessing_vars

\* main.py:22-24
CheckClassifier ==
    /\ main_pc = "constructed"
    /\ IF ClassifierMissing(classifier_pipeline)
       THEN /\ log_errors' = log_errors
                    \o Logged(0, <<"Failed to initialize LLM classifier">>)
            /\ main_pc' = "returned"
       ELSE /\ main_pc' = "list"
            /\ UNCHANGED log_errors
    /\ UNCHANGED <<classifier_pipeline, patient_ids, iterator, classification_results,
                   shortened_doc, load_calls, shortened_notes_files,
                   save_results_calls, results_file>>
    /\ UNCHANGED preprocessing_vars

\* main.py:27-39
ListPatients ==
    /\ main_pc = "list"
    /\ \E data_dir \in DataDirs :
          LET ids == SelectSeq(data_dir.entries, IsPatientDir)
          IN  IF data_dir.error # "none"
              THEN /\ log_errors' = log_errors \o Logged(0, <<data_dir.error>>)
                   /\ main_pc' = "returned"
                   /\ UNCHANGED patient_ids
              ELSE IF ids = <<>>
              THEN /\ main_pc' = "returned"
                   /\ UNCHANGED <<patient_ids, log_errors>>
              ELSE /\ patient_ids' = ids
                   /\ main_pc' = "loop"
                   /\ UNCHANGED log_errors
    /\ classification_results' = <<>>
    /\ iterator' = 1
    /\ UNCHANGED <<classifier_pipeline, shortened_doc, load_calls,
                   shortened_notes_files, save_results_calls, results_file>>
    /\ UNCHANGED preprocessing_vars

\* main.py:41-48
LoadNotes ==
    /\ main_pc = "loop"
    /\ iterator <= Len(patient_ids)
    /\ load_calls' = Append(load_calls, patient_id)
    /\ \E dir \in PatientDirs :
          LET loaded == load_patient_notes(dir)
          IN  IF loaded.raised # "none"
              THEN /\ ExceptHandler(loaded.raised, loaded.logged)
                   /\ UNCHANGED notes
              ELSE /\ log_errors' = log_errors \o Logged(patient_id, loaded.logged)
                   /\ notes' = loaded.value
                   /\ IF loaded.value = <<>>
                      THEN iterator' = iterator + 1 /\ main_pc' = "loop"
                      ELSE iterator' = iterator /\ main_pc' = "loaded"
                   /\ UNCHANGED classification_results
    /\ UNCHANGED <<classifier_pipeline, patient_ids, shortened_doc,
                   shortened_notes_files, save_results_calls, results_file>>
    /\ UNCHANGED <<pc, generalized_notes, deduplicated_content,
                   combined_lab_results_str, combined_lab_results_dict,
                   lab_result_pattern, shortened_document>>

\* main.py:51, the call: preprocess_patient_notes starts on the loaded notes
CallPreprocess ==
    /\ main_pc = "loaded"
    /\ main_pc' = "preprocessing"
    /\ pc' = "start"
    /\ generalized_notes' = <<>>
    /\ deduplicated_content' = <<>>
    /\ combined_lab_results_str' = <<>>
    /\ combined_lab_results_dict' = <<>>
    /\ lab_result_pattern' = "None"
    /\ shortened_document' = <<>>
    /\ UNCHANGED notes
    /\ UNCHANGED <<classifier_pipeline, patient_ids, iterator, classification_results,
                   shortened_doc, log_errors, load_calls, shortened_notes_files,
                   save_results_calls, results_file>>

\* main.py:51-52, the return of the call, or its exception
PreprocessDone ==
    /\ main_pc = "preprocessing"
    /\ pc \in {"returned", "raised"}
    /\ pc' = "idle"
    /\ IF pc = "raised"
       THEN /\ ExceptHandler("AttributeError", <<>>)
            /\ UNCHANGED shortened_doc
       ELSE /\ shortened_doc' = shortened_document
            /\ main_pc' = "preprocessed"
            /\ UNCHANGED <<iterator, classification_results, log_errors>>
    /\ UNCHANGED <<classifier_pipeline, patient_ids, load_calls,
                   shortened_notes_files, save_results_calls, results_file>>
    /\ UNCHANGED <<notes, generalized_notes, deduplicated_content,
                   combined_lab_results_str, combined_lab_results_dict,
                   lab_result_pattern, shortened_document>>

\* main.py:55, results_saver.py:37-56
SaveShortenedNote ==
    /\ main_pc = "preprocessed"
    /\ \E outcome \in WriteOutcomes :
          IF outcome = "makedirs failed"
          THEN /\ ExceptHandler("OSError", <<>>)
               /\ UNCHANGED shortened_notes_files
          ELSE /\ main_pc' = "saved"
               /\ IF outcome = "written"
                  THEN /\ shortened_notes_files' =
                            SetResult(shortened_notes_files, patient_id, shortened_doc)
                       /\ UNCHANGED log_errors
                  ELSE /\ log_errors' = log_errors
                            \o Logged(patient_id, <<"Error saving shortened note">>)
                       /\ UNCHANGED shortened_notes_files
               /\ UNCHANGED <<iterator, classification_results>>
    /\ UNCHANGED <<classifier_pipeline, patient_ids, shortened_doc, load_calls,
                   save_results_calls, results_file>>
    /\ UNCHANGED preprocessing_vars

\* main.py:58-60, llm_classifier.py:35-98
ClassifyNote ==
    /\ main_pc = "saved"
    /\ \E generated \in Generations :
          /\ classification_results' =
                SetResult(classification_results, patient_id,
                          classify_note(classifier_pipeline, generated))
          /\ log_errors' =
                IF classifier_pipeline = "None"
                THEN log_errors \o Logged(patient_id, <<"TinyLlama classifier not loaded">>)
                ELSE IF generated.raised
                THEN log_errors \o Logged(patient_id, <<"Error during TinyLlama classification">>)
                ELSE log_errors
    /\ iterator' = iterator + 1
    /\ main_pc' = "loop"
    /\ UNCHANGED <<classifier_pipeline, patient_ids, shortened_doc, load_calls,
                   shortened_notes_files, save_results_calls, results_file>>
    /\ UNCHANGED preprocessing_vars

\* main.py:66-69, results_saver.py:10-35: the loop is over
SaveResults ==
    /\ main_pc = "loop"
    /\ iterator > Len(patient_ids)
    /\ save_results_calls' = Append(save_results_calls, classification_results)
    /\ \E outcome \in WriteOutcomes :
          /\ main_pc' = IF outcome = "makedirs failed" THEN "raised" ELSE "returned"
          /\ results_file' = IF outcome = "written"
                             THEN [written |-> TRUE, content |-> classification_results]
                             ELSE results_file
          /\ log_errors' = IF outcome = "write failed"
                           THEN log_errors \o Logged(0, <<"Error saving results">>)
                           ELSE log_errors
    /\ UNCHANGED <<classifier_pipeline, patient_ids, iterator, classification_results,
                   shortened_doc, load_calls, shortened_notes_files>>
    /\ UNCHANGED preprocessing_vars

NextWorkflow ==
    \/ InitializeClassifier
    \/ CheckClassifier
    \/ ListPatients
    \/ LoadNotes
    \/ CallPreprocess
    \/ Generalize
    \/ Deduplicate
    \/ ExtractLabs
    \/ StripLabs
    \/ CleanupDocument
    \/ Return
    \/ PreprocessDone
    \/ SaveShortenedNote
    \/ ClassifyNote
    \/ SaveResults

SpecWorkflow == InitWorkflow /\ [][NextWorkflow]_vars

-----------------------------------------------------------------------------
(* Notions the properties are stated with.                                  *)

\* the indices at which part occurs in s
Occurrences(part, s) == {i \in 1..(Len(s) - Len(part) + 1) : HasAt(s, i, part)}

Contains(s, part) == Occurrences(part, s) # {}

IsSuffix(part, s) == Len(part) <= Len(s) /\ HasAt(s, Len(s) - Len(part) + 1, part)

\* a sequence without repeated elements
NoRepeats(q) == \A i, j \in DOMAIN q : q[i] = q[j] => i = j

\* the statements of preprocess_patient_notes that have run
Generalized == pc \notin {"start"}

Extracted == pc \notin {"start", "generalized", "deduplicated"}

\* everything before the appended lab-summary line of a returned document
NarrativeOf(document, summary) ==
    IF summary = <<>> THEN document
    ELSE IF Len(document) <= Len(summary) THEN <<>>
    ELSE SubSeq(document, 1, Len(document) - Len(summary) - 2)

\* the sentences of all the notes, notes in input order, sentences from left
\* to right
RECURSIVE AllSentences(_)
AllSentences(rest) ==
    IF rest = <<>> THEN <<>>
    ELSE _split_into_sentences(Head(rest)) \o AllSentences(Tail(rest))

\* the distinct elements of q, each at the rank of its first occurrence
FirstOccurrences(q) ==
    LET FirstAt(x) == Least({i \in DOMAIN q : q[i] = x})
        distinct == Range(q)
    IN  [k \in 1..Cardinality(distinct) |->
            CHOOSE x \in distinct :
                Cardinality({y \in distinct : FirstAt(y) < FirstAt(x)}) = k - 1]

-----------------------------------------------------------------------------
(* C1.  deduplicate_notes returns the newline-joined sequence of the        *)
(* trimmed non-empty sentences of the notes in which every distinct         *)
(* sentence appears exactly once, at the position of its first occurrence;  *)
(* notes ["A. B.", "B. C."] give the sentences "A.", "B.", "C.".            *)
C1_DedupFirstSeenOrder ==
    pc = "deduplicated" =>
        LET unique == FirstOccurrences(AllSentences(generalized_notes))
        IN  /\ NoRepeats(unique)
            /\ Range(unique) = Range(AllSentences(generalized_notes))
            /\ deduplicated_content = Join(unique, <<"\n">>)

C1_Witness ==
    /\ pc = "deduplicated"
    /\ generalized_notes = <<<<"A","."," ","B",".">>, <<"B","."," ","C",".">>>>
    /\ deduplicated_content = <<"A",".","\n","B",".","\n","C",".">>

-----------------------------------------------------------------------------
(* C2.  When every lab mention is followed by a sentence-ending period, the *)
(* summary lists the values as the bare numbers, in encounter order: no     *)
(* value carries the period, and notes ["Blood Count: 300.",                *)
(* "Blood Count: 400."] give a summary that contains                        *)
(* "Blood Count: 300, 400".                                                 *)
C2_SummaryListsBareValues ==
    Extracted =>
        /\ \A k \in DOMAIN combined_lab_results_dict :
             \A v \in DOMAIN combined_lab_results_dict[k].values :
                LET value == combined_lab_results_dict[k].values[v]
                IN  value[Len(value)] \in Digit
        /\ notes = <<<<"B","l","o","o","d"," ","C","o","u","n","t",":"," ","3","0","0",".">>, <<"B","l","o","o","d"," ","C","o","u","n","t",":"," ","4","0","0",".">>>>
              => Contains(combined_lab_results_str, <<"B","l","o","o","d"," ","C","o","u","n","t",":"," ","3","0","0",","," ","4","0","0">>)

-----------------------------------------------------------------------------
(* C3.  The narrative portion of the returned document (everything before   *)
(* the appended lab summary) contains no match of the lab pattern.          *)
C3_NarrativeHasNoLabMention ==
    pc = "returned" =>
        LabMatchesFrom(NarrativeOf(shortened_document, combined_lab_results_str), 1) = <<>>

-----------------------------------------------------------------------------
(* C4.  The cleanup stage is idempotent: cleaning the cleaned narrative     *)
(* again leaves it as it is.                                                *)
C4_CleanupIdempotent ==
    pc = "cleaned" => Cleanup(shortened_document) = shortened_document

\* the cleanup rewrote a hyphen and changed the narrative
C4_Witness ==
    /\ pc = "cleaned"
    /\ shortened_document # deduplicated_content
    /\ Contains(shortened_document, <<" ", "-", " ">>)

-----------------------------------------------------------------------------
(* C5.  The composer is idempotent: preprocessing the one-note list made of *)
(* a returned document returns that document.                               *)
C5_ComposerIdempotent ==
    pc = "returned" =>
        preprocess_patient_notes(<<shortened_document>>)
            = [raised |-> FALSE, value |-> shortened_document]

-----------------------------------------------------------------------------
(* C6.  Lab names are matched whatever their letter case and normalized to  *)
(* title case: every key of the lab table is in title case, no two keys     *)
(* differ only in letter case, and the values of a key are the values of    *)
(* all the mentions of that name, in encounter order; "HEMOGLOBIN: 9.0"     *)
(* then "hemoglobin: 9.5" give the one key "Hemoglobin" with the values     *)
(* "9.0", "9.5".                                                            *)

\* the mentions of one note: the matched name as written, and the value
MentionsOf(note) ==
    LET starts == LabMatchesFrom(note, 1)
    IN  [k \in DOMAIN starts |->
            [written |-> SubSeq(note, starts[k],
                                starts[k] + Len(LabNames[LabNameAt(note, starts[k])]) - 1),
             value |-> LabValueOf(note, starts[k])]]

RECURSIVE AllMentions(_)
AllMentions(rest) ==
    IF rest = <<>> THEN <<>> ELSE MentionsOf(Head(rest)) \o AllMentions(Tail(rest))

\* the values of the mentions whose name is key, letter case ignored
ValuesNamed(mentions, key) ==
    LET Named(m) == LowerText(m.written) = LowerText(key)
        named == SelectSeq(mentions, Named)
    IN  [k \in DOMAIN named |-> named[k].value]

C6_CaseInsensitiveTitleKeys ==
    pc = "extracted" =>
        LET table == combined_lab_results_dict
            mentions == AllMentions(generalized_notes)
        IN  /\ \A j, k \in DOMAIN table :
                  LowerText(table[j].name) = LowerText(table[k].name) => j = k
            /\ \A k \in DOMAIN table :
                  /\ Title(table[k].name) = table[k].name
                  /\ table[k].values = ValuesNamed(mentions, table[k].name)
            /\ \A m \in DOMAIN mentions :
                  \E k \in DOMAIN table :
                      LowerText(table[k].name) = LowerText(mentions[m].written)
            /\ generalized_notes = <<<<"H","E","M","O","G","L","O","B","I","N",":"," ","9",".","0">>, <<"h","e","m","o","g","l","o","b","i","n",":"," ","9",".","5">>>>
                  => table = <<[name |-> <<"H","e","m","o","g","l","o","b","i","n">>, values |-> <<<<"9",".","0">>, <<"9",".","5">>>>]>>

C6_Witness ==
    /\ pc = "extracted"
    /\ generalized_notes = <<<<"H","E","M","O","G","L","O","B","I","N",":"," ","9",".","0">>, <<"h","e","m","o","g","l","o","b","i","n",":"," ","9",".","5">>>>
    /\ Len(combined_lab_results_dict) = 1
    /\ Len(combined_lab_results_dict[1].values) = 2

-----------------------------------------------------------------------------
(* C7.  preprocess_patient_notes never fails on a list of strings: no       *)
(* statement raises, what the call returns is a string, and for the empty   *)
(* list it is the empty string.                                             *)

\* the characters a document is made of
DocumentChars ==
    Letter \cup Digit \cup Space
        \cup {".", ",", ";", ":", "-", "/", "!", "?", "(", ")", "[", "]", "_"}

C7_NeverFails ==
    /\ pc # "raised"
    /\ pc = "returned" =>
          /\ \A i \in 1..Len(shortened_document) : shortened_document[i] \in DocumentChars
          /\ notes = <<>> => shortened_document = <<>>

\* a call returned for an empty note followed by a note with a malformed
\* date and no lab mention
C7_Witness ==
    /\ pc = "returned"
    /\ notes = <<<<>>, <<"o","n"," ","1","/","2","/","2","0">>>>
    /\ lab_result_pattern = "None"
    /\ shortened_document = <<"o","n"," ","1","/","2","/","2","0">>

-----------------------------------------------------------------------------
(* C8.  Final assembly: with a summary and a narrative the result is the    *)
(* narrative, a blank line and the summary; with a summary and no narrative *)
(* it is the summary; without a summary it is the narrative.  The summary   *)
(* appears exactly once, and only at the end.                               *)

\* the cleaned narrative, from the values the call still holds
CleanedNarrative ==
    Cleanup(StripLabMentions(lab_result_pattern, deduplicated_content).value)

\* the three cases of the assembly
AssemblyCases ==
    pc = "returned" =>
        LET summary == combined_lab_results_str
        IN  /\ summary # <<>> /\ CleanedNarrative # <<>>
                  => shortened_document = CleanedNarrative \o <<"\n", "\n">> \o summary
            /\ summary # <<>> /\ CleanedNarrative = <<>> => shortened_document = summary
            /\ summary = <<>> => shortened_document = CleanedNarrative

C8_FinalAssembly ==
    /\ AssemblyCases
    /\ pc = "returned" /\ combined_lab_results_str # <<>> =>
          Occurrences(combined_lab_results_str, shortened_document)
              = {Len(shortened_document) - Len(combined_lab_results_str) + 1}

-----------------------------------------------------------------------------
(* C9.  The narrative of the returned document is deduplicated: no sentence *)
(* occurs twice in it.                                                      *)
C9_NarrativeDeduplicated ==
    pc = "returned" =>
        NoRepeats(_split_into_sentences(
            NarrativeOf(shortened_document, combined_lab_results_str)))

-----------------------------------------------------------------------------
(* C10.  A doctor-name rule replaces only the name, a run of one or two     *)
(* capitalized words (an uppercase letter followed by lowercase letters),   *)
(* and keeps the label: the text that follows the name run is left          *)
(* unchanged in the generalized note.                                       *)

\* the index after a capitalized word that starts at p, or 0; the word ends
\* where the letters end
NameWordEnd(s, p) ==
    LET e == SpanEnd(s, p + 1, Lower)
    IN  IF /\ p <= Len(s) /\ s[p] \in Upper
           /\ e > p + 1
           /\ e > Len(s) \/ s[e] \notin Letter
        THEN e
        ELSE 0

\* the index after the name run of the doctor label that stands at i, or 0
DoctorNameRunEnd(s, i) ==
    LET label == IF HasAt(s, i, LitDr) THEN LitDr
                 ELSE IF HasAt(s, i, LitVisitedPhysician) THEN LitVisitedPhysician
                 ELSE <<>>
        p == SpanEnd(s, i + Len(label), Space)
        first == NameWordEnd(s, p)
        q == SpanEnd(s, first, Space)
    IN  IF label = <<>> \/ p = i + Len(label) \/ first = 0 THEN 0
        ELSE IF q > first /\ NameWordEnd(s, q) > 0 THEN NameWordEnd(s, q)
        ELSE first

C10_DoctorRuleKeepsFollowingWords ==
    Generalized =>
        \A k \in DOMAIN notes :
            \A i \in 1..Len(notes[k]) :
                LET e == DoctorNameRunEnd(notes[k], i)
                    following == SubSeq(notes[k], e, Len(notes[k]))
                IN  e > 0 /\ generalize_sensitive_info(following) = following
                        => IsSuffix(following, generalized_notes[k])

-----------------------------------------------------------------------------
(* C11.  Extraction and stripping agree: every substring that the lab       *)
(* pattern removes from the deduplicated narrative is the text of a lab     *)
(* mention that was counted in a note, so nothing is removed that did not   *)
(* contribute a value to the lab table.                                     *)

\* the texts of the matches of the lab pattern in s
MatchTexts(s) ==
    {SubSeq(s, m, LabEnd(s, m) - 1) : m \in Range(LabMatchesFrom(s, 1))}

\* the texts of the mentions counted by the extraction, over all the notes
CountedTexts == UNION {MatchTexts(generalized_notes[k]) : k \in DOMAIN generalized_notes}

C11_StrippedAreCounted ==
    pc = "stripped" /\ lab_result_pattern # "None" =>
        MatchTexts(deduplicated_content) \subseteq CountedTexts

-----------------------------------------------------------------------------
(* C12.  When loading, preprocessing, saving or classifying fails for a     *)
(* patient, the patient's entry in the results is a sentinel error string,  *)
(* and the loop goes on: every patient of the list is processed and         *)
(* save_results is called with the results.                                 *)

\* an error was logged about the patient
Failed(patient) == \E k \in DOMAIN log_errors : log_errors[k].patient_id = patient

\* the strings that stand for an error in the results
Sentinels ==
    Range(ErrorLabel) \cup {"Error during classification", "Error: Classifier not loaded"}

\* once the workflow is over, every patient was loaded, in order, and
\* save_results was called once, with the results
LoopGoesOn ==
    main_pc \in {"returned", "raised"} /\ patient_ids # <<>> =>
        /\ load_calls = patient_ids
        /\ save_results_calls = <<classification_results>>

C12_FailedPatientGetsSentinel ==
    /\ \A k \in 1..Len(patient_ids) :
          k < iterator /\ Failed(patient_ids[k]) =>
              \E j \in DOMAIN classification_results :
                  /\ classification_results[j].patient_id = patient_ids[k]
                  /\ classification_results[j].classification \in Sentinels
    /\ LoopGoesOn

-----------------------------------------------------------------------------
(* C13.  After the cleanup stage the narrative has no whitespace character  *)
(* immediately before a comma, a period or a semicolon.                     *)
C13_NoSpaceBeforePunctuation ==
    pc = "cleaned" =>
        \A i \in 1..(Len(shortened_document) - 1) :
            ~(/\ shortened_document[i] \in Space
              /\ shortened_document[i + 1] \in {",", ".", ";"})

-----------------------------------------------------------------------------
(* C14.  Lab results are aggregated from the generalized notes, not from    *)
(* the deduplicated narrative: the lab table holds as many values as the    *)
(* notes hold matches of the lab pattern, so a lab sentence repeated in two *)
(* notes gives two values while the narrative keeps one copy of it.         *)

\* the number of values of the lab table
RECURSIVE TotalValues(_)
TotalValues(table) ==
    IF table = <<>> THEN 0 ELSE Len(Head(table).values) + TotalValues(Tail(table))

\* the number of matches of the lab pattern over the notes
RECURSIVE TotalMatches(_)
TotalMatches(rest) ==
    IF rest = <<>> THEN 0
    ELSE Len(LabMatchesFrom(Head(rest), 1)) + TotalMatches(Tail(rest))

\* the same lab sentence in both notes
RepeatedLabNotes ==
    <<<<"G","l","u","c","o","s","e",":"," ","7">>, <<"G","l","u","c","o","s","e",":"," ","7">>>>

C14_EveryMentionCounted ==
    pc = "extracted" =>
        /\ TotalValues(combined_lab_results_dict) = TotalMatches(generalized_notes)
        /\ generalized_notes = RepeatedLabNotes =>
              /\ combined_lab_results_dict =
                    <<[name |-> <<"G","l","u","c","o","s","e">>, values |-> <<<<"7">>, <<"7">>>>]>>
              /\ deduplicated_content = RepeatedLabNotes[1]

C14_Witness ==
    /\ pc = "extracted"
    /\ generalized_notes = RepeatedLabNotes
    /\ TotalValues(combined_lab_results_dict) = 2
    /\ Occurrences(<<"G","l","u","c","o","s","e">>, deduplicated_content) = {1}

-----------------------------------------------------------------------------
(* C15.  deduplicate_notes loses nothing and depends on the order of the    *)
(* notes only for the order of its output: the output is the newline-join   *)
(* of the trimmed non-empty sentences of all the notes, each once, in some  *)
(* order, and so is the output for every permutation of the notes.         *)

\* the lines of s: its maximal segments without a newline
LinesOf(s) ==
    IF s = <<>> THEN {}
    ELSE LET starts == {i \in 1..(Len(s) + 1) : i = 1 \/ s[i - 1] = "\n"}
             ends == {i \in 1..(Len(s) + 1) : i = Len(s) + 1 \/ s[i] = "\n"}
         IN  {SubSeq(s, p[1], p[2] - 1) :
                p \in {p \in starts \X ends :
                        /\ p[1] <= p[2]
                        /\ \A k \in p[1]..(p[2] - 1) : s[k] # "\n"}}

\* the note lists with the same notes in another order
Permuted(ns) == {[k \in DOMAIN ns |-> ns[f[k]]] : f \in Permutations(DOMAIN ns)}

\* the sequences that hold every element of S once
Orderings(S) ==
    {q \in [1..Cardinality(S) -> S] : \A i, j \in DOMAIN q : q[i] = q[j] => i = j}

\* the newline-joins of the sentences of the notes, each once, in any order
JoinsOfSentences(ns) == {Join(q, <<"\n">>) : q \in Orderings(Range(AllSentences(ns)))}

\* C15 stated on lines: the set of lines of the output is the set of sentences
C15_LinesAreTheSentences ==
    pc = "deduplicated" =>
        \A permuted \in Permuted(generalized_notes) :
            LinesOf(deduplicate_notes(permuted)) = Range(AllSentences(generalized_notes))

C15_JoinOfTheSentences ==
    pc = "deduplicated" =>
        /\ deduplicated_content \in JoinsOfSentences(generalized_notes)
        /\ \A permuted \in Permuted(generalized_notes) :
              deduplicate_notes(permuted) \in JoinsOfSentences(generalized_notes)

\* two notes whose order decides the order of the output
C15_Witness ==
    /\ pc = "deduplicated"
    /\ generalized_notes = <<<<"A", ".">>, <<"B">>>>
    /\ deduplicated_content = <<"A", ".", "\n", "B">>
    /\ deduplicate_notes(<<<<"B">>, <<"A", ".">>>>) = <<"B", "\n", "A", ".">>

-----------------------------------------------------------------------------
(* C16.  If the classifier fails to load, the workflow returns before any   *)
(* patient's notes are loaded or preprocessed, save_results is never        *)
(* called and no results file is written.                                   *)
C16_NoClassifierNoWork ==
    classifier_pipeline = "None" =>
        /\ main_pc \in {"constructed", "returned"}
        /\ patient_ids = <<>>
        /\ load_calls = <<>>
        /\ pc = "idle"
        /\ shortened_notes_files = <<>>
        /\ save_results_calls = <<>>
        /\ ~results_file.written

\* the workflow returned because the classifier did not load
C16_Witness ==
    /\ classifier_pipeline = "None"
    /\ main_pc = "returned"

====
